---------------------------- MODULE Spec2Model ----------------------------
(***************************************************************************)
(* The voice-session orchestrator of guptushar27/murf:                     *)
(*   src/services/websocket_service.py    WebSocketService                 *)
(*   src/services/realtime_stt_service.py RealtimeSTTService               *)
(*   src/services/murf_websocket_service.py MurfWebSocketService           *)
(*   src/services/llm_service.py          LLMService                       *)
(*   src/main.py                          the Socket.IO event handlers     *)
(*                                                                         *)
(* Strings are modelled by their length; a slice s[i:j] of a known string  *)
(* is the record [start |-> i, size |-> len(s[i:j])].                      *)
(***************************************************************************)
EXTENDS Integers, Sequences, FiniteSets, TLC

(* ------------------------------ bounds --------------------------------- *)
\* payloads span up to this many full chunks (plus or minus one character)
MaxChunks == 2
\* chunk-pacing tasks and background streams alive at the same time
MaxTasks == 2
\* WebSocketApp objects the recognition service creates in one run
MaxWs == 2
\* fragments the generation backend streams for one reply
MaxFragments == 3
\* messages counted for one session
MaxMessages == 2

(* -------------------------- program constants -------------------------- *)
\* stream_audio_to_client: chunk_size = 1024
chunk_size == 1024
\* handle_test_request, Day 21 / Day 22 demo streams: chunk_size = 100
demo_chunk_size == 100
\* handle_test_request, Day 22 real audio: chunk_size = 8192
real_chunk_size == 8192
\* len(demo_audio_data) of the Day 21 demo stream
demo21_len == 56
\* len(demo_audio_data) of the Day 22 fallback demo stream
demo22_len == 52
\* _generate_mock_base64_audio pads to a multiple of this
mock_pad == 200
\* _on_turn_detected: len(transcript) > 3
min_transcript_len == 3
\* generate_streaming_response: len(accumulated_response) > 3000
max_response_len == 3000
\* generate_streaming_response: accumulated_response[:2900]
truncated_len == 2900
\* len("...")
ellipsis_len == 3
\* generate_streaming_response: the interceptors' replies go out in groups
\* of chunk_size = 3 words
words_per_chunk == 3
\* _extract_study_content: len(parts[1].strip()) > 20
min_content_len == 20
\* _extract_study_content: len(message) > 100
min_message_len == 100

Sockets == {"A", "B"}
SessionIds == {"s1", "s2"}
None == "None"

Min(a, b) == IF a < b THEN a ELSE b

(* ------------------------------ chunking ------------------------------- *)
\* Python s[i:j] for 0 <= i: the slice as (start, size)
\* a slice whose end is not clamped to the length of the payload
SliceUnclamped(n, i, j) ==
    [start |-> i, size |-> IF j > i THEN j - i ELSE 0]

Slice(n, i, j) ==
    [start |-> i, size |-> IF Min(j, n) > i THEN Min(j, n) - i ELSE 0]

RECURSIVE SplitFrom(_, _, _)
\* for i in range(i0, n, cs): chunks.append(base64_audio[i:i + cs])
SplitFrom(n, cs, i) ==
    IF i >= n THEN << >>
    ELSE << Slice(n, i, i + cs) >> \o SplitFrom(n, cs, i + cs)

\* stream_audio_to_client: the chunks list of a payload of n characters
SplitChunks(n, cs) == SplitFrom(n, cs, 0)

\* main.py: total_chunks = len(data) // chunk_size + 1
MainTotalChunks(n, cs) == (n \div cs) + 1

\* main.py: chunk i (0-based) is data[i*cs : min((i+1)*cs, len(data))]
MainChunks(n, cs) ==
    [k \in 1..MainTotalChunks(n, cs) |->
        Slice(n, (k - 1) * cs, Min(k * cs, n))]

\* payload lengths tried: empty, one character, and around each chunk boundary
PayloadLens(cs) ==
    {0, 1} \cup {k * cs + d : k \in 1..MaxChunks, d \in {-1, 0, 1}}

\* lengths of a base64-encoded file: multiples of four
Base64Lens(cs) ==
    {0, 4} \cup {k * cs + d : k \in 1..MaxChunks, d \in {-4, 0, 4}}


(* ------------------------------- state --------------------------------- *)
VARIABLES
    \* the environment the service is constructed in
    stt_api_key,            \* RealtimeSTTService.api_key is set
    murf_api_key,           \* MurfWebSocketService.api_key is set
    llm_configured,         \* LLMService.configured
    has_socketio,           \* hasattr(self, 'socketio') and self.socketio
    loop_running,           \* the calling thread runs an asyncio event loop
    \* transport
    connected,              \* connection ids whose client is still connected
    \* WebSocketService
    active_sessions,        \* socket_id -> {session_id, message_count}
    audio_streams,          \* keys of self.audio_streams
    transcription_sessions, \* keys of self.transcription_sessions
    murf_sessions,          \* self.murf_sessions
    \* RealtimeSTTService (one instance, shared by every connection)
    ws,                     \* self.ws: index into ws_apps, 0 for None
    ws_apps,                \* every WebSocketApp created: owner and socket state
    is_connected,
    connection_error,
    is_streaming,
    transcription_callback, \* the socket_id the callback lambda closes over
    turn_detection_callback,
    starting,               \* connections whose start call is in its wait loop
    \* MurfWebSocketService (one instance, shared)
    murf_websocket,         \* self.websocket is not None
    murf_is_connected,
    murf_call,              \* start_murf_websocket_sync: wrapper and thread
    murf_stop_requested,    \* connections whose latest synthesis event was
                            \* stop_murf_websocket (history of the events)
    tts_calls,              \* send_text_for_tts calls: position, text, result
    murf_wire,              \* requests sent on self.websocket, not yet answered
    murf_inbox,             \* responses that arrived on self.websocket, unread
    \* asyncio tasks and background tasks
    tasks,                  \* process_murf_and_stream tasks and test streams
    stop_tasks,             \* scheduled stop_murf_websocket(socket_id) tasks
    \* what the clients were sent
    last_event,             \* the event emitted last: type, room, source, result
    \* the services called on their own
    service_call            \* the latest call: function, arguments, result

env_vars == << stt_api_key, murf_api_key, llm_configured, has_socketio, loop_running >>
session_vars == << active_sessions, audio_streams, transcription_sessions, murf_sessions >>
stt_vars == << ws, ws_apps, is_connected, connection_error, is_streaming,
               transcription_callback, turn_detection_callback, starting >>
murf_vars == << murf_websocket, murf_is_connected, murf_call >>
tts_vars == << tts_calls, murf_wire, murf_inbox >>
task_vars == << tasks, stop_tasks >>
vars == << env_vars, connected, session_vars, stt_vars, murf_vars, task_vars, last_event,
          service_call, murf_stop_requested, tts_vars >>

\* an emitted event: its name, the room (connection) it is emitted to, the
\* connection that opened the recognition stream it stems from, the room of
\* the turn it starts, its status or result, whether the text generated for
\* the turn is blank, and the model_used marker of the reply; for the last
\* event of a turn also the chunk_number values of the llm_streaming_chunk
\* events emitted before it, the chunk_count it reports, whether it
\* carries a fallback_response, and the names of the generation events of the
\* turn in the order of their emits
Event(type, room, from, turn, status) ==
    [type |-> type, sid |-> room, from |-> from, turn |-> turn, status |-> status,
     blank |-> FALSE, model_used |-> None,
     chunk_numbers |-> << >>, chunk_count |-> 0, fallback |-> FALSE,
     generation_events |-> << >>]

\* nothing has been emitted yet
NoEvent == Event("none", None, None, None, "none")

\* no service function has been called on its own yet
NoCall == [fn |-> "none", arg |-> None, result |-> None]

\* WebSocketService.__init__, RealtimeSTTService.__init__,
\* MurfWebSocketService.__init__: empty maps, no stream, no connection
Init ==
    /\ stt_api_key \in BOOLEAN
    /\ murf_api_key \in BOOLEAN
    /\ llm_configured \in BOOLEAN
    /\ has_socketio \in BOOLEAN
    /\ loop_running \in BOOLEAN
    /\ connected = Sockets
    /\ active_sessions = << >>
    /\ audio_streams = {}
    /\ transcription_sessions = {}
    /\ murf_sessions = {}
    /\ ws = 0
    /\ ws_apps = << >>
    /\ is_connected = FALSE
    /\ connection_error = FALSE
    /\ is_streaming = FALSE
    /\ transcription_callback = None
    /\ turn_detection_callback = None
    /\ starting = {}
    /\ murf_websocket = FALSE
    /\ murf_is_connected = FALSE
    /\ murf_call = [s \in Sockets |-> "idle"]
    /\ murf_stop_requested = {}
    /\ tts_calls = [s \in Sockets |-> [pc |-> "idle", round |-> 0, result |-> << >>]]
    /\ murf_wire = << >>
    /\ murf_inbox = << >>
    /\ tasks = << >>
    /\ stop_tasks = {}
    /\ last_event = NoEvent
    /\ service_call = NoCall

(* -------------------------- session registry --------------------------- *)
\* a session that counts its registration as a message
SessionCountsFromOne(session_id) == [session_id |-> session_id, message_count |-> 1]

\* the session record register_session stores
NewSession(session_id) == [session_id |-> session_id, message_count |-> 0]

\* register_session: replaces active_sessions[socket_id] and
\* audio_streams[socket_id]; nothing else is touched
register_session(session_id, s) ==
    /\ s \in connected
    /\ active_sessions' = (s :> NewSession(session_id)) @@ active_sessions
    /\ audio_streams' = audio_streams \cup {s}
    /\ UNCHANGED << env_vars, tts_vars, murf_stop_requested, service_call, connected, transcription_sessions, murf_sessions,
                    stt_vars, murf_vars, task_vars, last_event >>

\* get_active_sessions_count
get_active_sessions_count == Cardinality(DOMAIN active_sessions)

\* handle_message -> handle_echo_message: the message is echoed to the
\* sender and counted for the session of the connection, if it has one
echo_message(s) ==
    /\ s \in connected
    /\ IF s \in DOMAIN active_sessions
       THEN /\ active_sessions[s].message_count < MaxMessages
            /\ active_sessions' = [active_sessions EXCEPT ![s].message_count = @ + 1]
       ELSE UNCHANGED active_sessions
    /\ last_event' = Event("echo_response", s, None, None, "echo")
    /\ UNCHANGED << env_vars, tts_vars, murf_stop_requested, service_call, connected, audio_streams,
                    transcription_sessions, murf_sessions, stt_vars, murf_vars,
                    task_vars >>

\* ws.close() on a WebSocketApp: the socket starts closing
CloseApp(app) ==
    IF app.state \in {"connecting", "open"}
    THEN [app EXCEPT !.state = "closing"]
    ELSE app

\* RealtimeSTTService.stop_streaming_transcription, as the value of ws_apps
StoppedApps ==
    IF ws # 0 THEN [ws_apps EXCEPT ![ws] = CloseApp(@)] ELSE ws_apps

\* a stop that forgets to delete the entry of the connection
StopKeepsKey(s) == transcription_sessions

\* the keys stop_realtime_transcription leaves in transcription_sessions
StopTranscriptionKeys(s) == transcription_sessions \ {s}

\* stop_realtime_transcription(socket_id), called by a handler
StopRealtime(s) ==
    IF s \in transcription_sessions
    THEN /\ ws_apps' = StoppedApps
         /\ is_streaming' = FALSE
         /\ is_connected' = FALSE
         /\ transcription_sessions' = StopTranscriptionKeys(s)
    ELSE UNCHANGED << ws_apps, is_streaming, is_connected, transcription_sessions >>

\* asyncio.create_task outside a running event loop raises RuntimeError
CreateTaskRaises == ~loop_running

\* unregister_session, called by handle_disconnect
unregister_session(s) ==
    /\ s \in connected
    /\ connected' = connected \ {s}
    /\ active_sessions' = [t \in (DOMAIN active_sessions) \ {s} |-> active_sessions[t]]
    /\ StopRealtime(s)
    /\ IF s \in murf_sessions
       THEN IF CreateTaskRaises
            THEN \* the handler ends here: the audio_streams cleanup is skipped
                 UNCHANGED << audio_streams, stop_tasks >>
            ELSE /\ stop_tasks' = stop_tasks \cup {s}
                 /\ audio_streams' = audio_streams \ {s}
       ELSE /\ audio_streams' = audio_streams \ {s}
            /\ UNCHANGED stop_tasks
    /\ UNCHANGED << env_vars, tts_vars, murf_stop_requested, service_call, murf_sessions, ws, connection_error,
                    transcription_callback, turn_detection_callback, starting,
                    murf_vars, tasks, last_event >>

\* handle_stop_streaming_transcription / handle_stop_realtime_transcription
stop_realtime_transcription(s) ==
    /\ s \in connected
    /\ StopRealtime(s)
    /\ last_event' = Event("transcription_status", s, None, None, "stopped")
    /\ UNCHANGED << env_vars, tts_vars, murf_stop_requested, service_call, connected, active_sessions, audio_streams,
                    murf_sessions, ws, connection_error, transcription_callback,
                    turn_detection_callback, starting, murf_vars, task_vars >>

(* ----------------------- recognition stream --------------------------- *)
\* a service that takes itself for configured whatever the key
SttAlwaysConfigured == TRUE

\* RealtimeSTTService.is_configured
SttConfigured == stt_api_key

\* start_realtime_transcription up to the wait loop of
\* start_streaming_transcription: callbacks stored, connection state reset,
\* a new WebSocketApp created and its thread started.  self.ws is overwritten;
\* the WebSocketApp it held is not closed.
start_realtime_transcription(s) ==
    /\ s \in connected
    /\ s \notin starting
    /\ IF ~SttConfigured
       THEN /\ last_event' = Event("transcription_status", s, None, None, "error_config")
            /\ UNCHANGED stt_vars
       ELSE /\ Len(ws_apps) < MaxWs
            /\ transcription_callback' = s
            /\ turn_detection_callback' = s
            /\ is_connected' = FALSE
            /\ connection_error' = FALSE
            /\ ws_apps' = Append(ws_apps, [owner |-> s, state |-> "connecting"])
            /\ ws' = Len(ws_apps) + 1
            /\ starting' = starting \cup {s}
            /\ UNCHANGED << is_streaming, last_event >>
    /\ UNCHANGED << env_vars, tts_vars, murf_stop_requested, service_call, connected, session_vars, murf_vars, task_vars >>

\* what start_streaming_transcription returns when its wait loop ends
StartSucceeds == ~connection_error /\ is_connected

\* the wait loop ends (connected, error, or the 10 s ran out) and
\* start_realtime_transcription returns
start_streaming_return(s) ==
    /\ s \in starting
    /\ starting' = starting \ {s}
    /\ IF StartSucceeds
       THEN /\ is_streaming' = TRUE
            /\ transcription_sessions' = transcription_sessions \cup {s}
            /\ last_event' = Event("transcription_status", s, None, None, "started")
       ELSE /\ last_event' = Event("transcription_status", s, None, None, "error_connect")
            /\ UNCHANGED << is_streaming, transcription_sessions >>
    /\ UNCHANGED << env_vars, tts_vars, murf_stop_requested, service_call, connected, active_sessions, audio_streams,
                    murf_sessions, ws, ws_apps, is_connected, connection_error,
                    transcription_callback, turn_detection_callback, murf_vars,
                    task_vars >>

\* _on_open, run by the thread of WebSocketApp w
on_open(w) ==
    /\ ws_apps[w].state = "connecting"
    /\ ws_apps' = [ws_apps EXCEPT ![w].state = "open"]
    /\ is_connected' = TRUE
    /\ UNCHANGED << env_vars, tts_vars, murf_stop_requested, service_call, connected, session_vars, ws, connection_error,
                    is_streaming, transcription_callback, turn_detection_callback,
                    starting, murf_vars, task_vars, last_event >>

\* _on_error, run by the thread of WebSocketApp w
on_error(w) ==
    /\ ws_apps[w].state \in {"connecting", "open"}
    /\ ws_apps' = [ws_apps EXCEPT ![w].state = "failed"]
    /\ connection_error' = TRUE
    /\ is_connected' = FALSE
    /\ is_streaming' = FALSE
    /\ UNCHANGED << env_vars, tts_vars, murf_stop_requested, service_call, connected, session_vars, ws,
                    transcription_callback, turn_detection_callback,
                    starting, murf_vars, task_vars, last_event >>

\* _on_close, run by the thread of WebSocketApp w when its socket has closed
on_close(w) ==
    /\ ws_apps[w].state \in {"open", "closing", "failed"}
    /\ ws_apps' = [ws_apps EXCEPT ![w].state = "closed"]
    /\ is_connected' = FALSE
    /\ is_streaming' = FALSE
    /\ UNCHANGED << env_vars, tts_vars, murf_stop_requested, service_call, connected, session_vars, ws, connection_error,
                    transcription_callback, turn_detection_callback,
                    starting, murf_vars, task_vars, last_event >>

(* ---------------------------- client audio ---------------------------- *)
\* RealtimeSTTService.send_audio_data: the audio goes to the backend when
\* there is a WebSocketApp and the service is streaming, and is dropped
\* otherwise
send_audio_data ==
    IF ws # 0 /\ is_streaming THEN "forwarded" ELSE "dropped"

\* WebSocketService.handle_streaming_audio_transcription on a non-empty
\* audio_data: the chunk is written to a file under instance/audio_streams
\* and the response 'received' is returned; send_audio_data is not called
AudioChunkResult == "saved"

\* handle_audio_chunk / handle_streaming_audio_transcription of main.py; the
\* handler's result is recorded like an event
audio_chunk(s) ==
    /\ s \in connected
    /\ last_event' = Event("audio_chunk", s, None, None, AudioChunkResult)
    /\ UNCHANGED << env_vars, tts_vars, murf_stop_requested, service_call, connected, session_vars, stt_vars, murf_vars,
                    task_vars >>

(* --------------------------- turn processing --------------------------- *)
\* the skill interceptors of generate_streaming_response, in the order it
\* calls them: _handle_weather_request, _handle_search_request,
\* _handle_study_request, _handle_pdf_request
Interceptors == << "weather", "web_search", "study", "document" >>

\* the model_used marker of the reply of a skill
Marker(skill) ==
    CASE skill = "weather" -> "weather-skill"
      [] skill = "web_search" -> "web-search-skill"
      [] skill = "study" -> "study-assistant-skill"
      [] skill = "document" -> "pdf-service"

\* a message without a keyword of any skill
PlainText == {}

\* a message is modelled by the set of skills whose keywords it contains
TurnTexts ==
    {{}, {"weather"}, {"web_search"}, {"study"}, {"document"},
     {"weather", "document"}, {"web_search", "study"}, {"study", "document"}}

RECURSIVE FirstFrom(_, _)
\* the first interceptor from position k on that claims the message
FirstFrom(txt, k) ==
    IF k > Len(Interceptors) THEN None
    ELSE IF Interceptors[k] \in txt THEN Interceptors[k]
    ELSE FirstFrom(txt, k + 1)

\* the interceptor whose result generate_streaming_response returns
FirstClaim(txt) == FirstFrom(txt, 1)

\* the words _generate_fallback_response looks for, by class: 'hello', 'hi',
\* 'hey'; 'trouble', 'problem', 'issue'; 'help', 'assist'
FallbackWords == {"greeting", "trouble", "help"}

\* a selection that looks for the help words before the trouble words
FallbackHelpFirst(txt) ==
    IF "greeting" \in txt THEN "greeting"
    ELSE IF "help" \in txt THEN "help"
    ELSE IF "trouble" \in txt THEN "trouble"
    ELSE "generic"

\* _generate_fallback_response(user_message): which of its four messages
generate_fallback_response(txt) ==
    IF "greeting" \in txt THEN "greeting"
    ELSE IF "trouble" \in txt THEN "trouble"
    ELSE IF "help" \in txt THEN "help"
    ELSE "generic"

\* a text by its length, whether it is whitespace only, and whether it ends
\* with the "..." of a truncation
Text(n, blank) == [len |-> n, blank |-> blank, ellipsis |-> FALSE]

NoText == Text(0, TRUE)

\* a cut that keeps max_response_len characters and then adds the marker
TruncateAtLimit(t) ==
    IF t.len > max_response_len
    THEN [len |-> Slice(t.len, 0, max_response_len).size + ellipsis_len,
          blank |-> FALSE, ellipsis |-> TRUE]
    ELSE t

\* if len(accumulated_response) > 3000:
\*     accumulated_response = accumulated_response[:2900] + "..."
Truncate(t) ==
    IF t.len > max_response_len
    THEN [len |-> Slice(t.len, 0, truncated_len).size + ellipsis_len,
          blank |-> FALSE, ellipsis |-> TRUE]
    ELSE t

\* a loop that takes every fragment of the stream, empty or not
FragmentAlwaysCounted(f) == TRUE

\* if chunk.text: an empty fragment is skipped
FragmentCounted(f) == f.len > 0

\* accumulated_response, chunk_count and the arguments of the callback
\* before the first fragment
Accumulator0 ==
    [len |-> 0, blank |-> TRUE, chunk_count |-> 0, callbacks |-> << >>]

RECURSIVE Consume(_, _)
\* for chunk in response: the fragments that count are accumulated, counted
\* and handed to the callback
Consume(frags, acc) ==
    IF frags = << >> THEN acc
    ELSE LET f == Head(frags)
         IN Consume(Tail(frags),
                    IF FragmentCounted(f)
                    THEN [len |-> acc.len + f.len,
                          blank |-> acc.blank /\ f.blank,
                          chunk_count |-> acc.chunk_count + 1,
                          callbacks |-> Append(acc.callbacks, f.len)]
                    ELSE acc)

\* the key 'chunk_count' is not in the result; << n >> when it is, with value n
NoKey == << >>

\* a result with success False: the error, the fallback_response, and what
\* the callback was handed before the failure
Failure(error, fallback, callbacks) ==
    [success |-> FALSE, error |-> error, fallback_response |-> fallback,
     response |-> NoText, model_used |-> None, chunk_count |-> NoKey,
     callbacks |-> callbacks]

\* a result with success True
Success(response, model_used, chunk_count, callbacks) ==
    [success |-> TRUE, error |-> None, fallback_response |-> None,
     response |-> response, model_used |-> model_used,
     chunk_count |-> chunk_count, callbacks |-> callbacks]

\* generate_streaming_response, the try block: the stream st of the backend
\* is opened and consumed; st.raises tells that an exception ends it after
\* the fragments st.frags (at the opening when there are none)
StreamResult(txt, st) ==
    LET acc == Consume(st.frags, Accumulator0)
    IN IF st.raises
       THEN Failure("exception", generate_fallback_response(txt), acc.callbacks)
       ELSE IF acc.len = 0
       THEN Failure("empty", "apology", acc.callbacks)
       ELSE Success(Truncate([len |-> acc.len, blank |-> acc.blank, ellipsis |-> FALSE]),
                    "gemini-1.5-flash", << acc.chunk_count >>, acc.callbacks)

\* the reply of a skill, here the one of the study skill that asks for
\* content: its words and its characters
skill_reply_words == 20
skill_reply_len == 112

\* for i in range(0, len(words), chunk_size): callback(' '.join(words[i:i+3]) + ' ')
\* as the word counts of the groups handed to the callback
WordGroups(words) ==
    LET groups == SplitChunks(words, words_per_chunk)
    IN [k \in 1..Len(groups) |-> groups[k].size]

\* what the callback is handed for the reply of a skill
SkillReplyGroups == WordGroups(skill_reply_words)

\* the sentences of the Day 20 test reply, fallback_response.split('. ')
fallback_sentences == 3

\* generate_streaming_response on a message whose backend stream, if it
\* comes to be opened, is st
GenerateOnStream(txt, st) ==
    IF FirstClaim(txt) # None
    THEN Success(Text(skill_reply_len, FALSE), Marker(FirstClaim(txt)), NoKey,
                 SkillReplyGroups)
    ELSE IF ~llm_configured
    THEN Success(Text(skill_reply_len, FALSE), "fallback-for-day20-testing",
                 << fallback_sentences >>, [k \in 1..fallback_sentences |-> 1])
    ELSE StreamResult(txt, st)

\* a stream of the backend
Stream(frags, raises) == [frags |-> frags, raises |-> raises]

\* the streams the backend answers a turn with: "Hello world" in one
\* fragment, in two fragments around an empty one, a whitespace-only text, no
\* text at all, and an exception at the opening and after the first fragment
BackendStreams ==
    {Stream(<< Text(11, FALSE) >>, FALSE),
     Stream(<< Text(5, FALSE), Text(0, TRUE), Text(6, FALSE) >>, FALSE),
     Stream(<< Text(1, TRUE) >>, FALSE),
     Stream(<< Text(0, TRUE) >>, FALSE),
     Stream(<< >>, TRUE),
     Stream(<< Text(5, FALSE) >>, TRUE)}

\* LLMService.generate_streaming_response(messages, current_message,
\* callback): the results it can return for a message
generate_streaming_response(txt) ==
    {GenerateOnStream(txt, st) : st \in BackendStreams}

\* a task that was handed a payload and sent its first chunk before the
\* reply was complete
MurfTaskAlreadyStreaming(s, text) ==
    [kind |-> "ws", sid |-> s, pc |-> "stream", text |-> text, mock |-> TRUE,
     total_size |-> mock_pad, chunk_size |-> chunk_size,
     chunks |-> SplitChunks(mock_pad, chunk_size),
     total_chunks |-> 1, idx |-> 1,
     emitted |-> << [chunk_index |-> 1, chunk_size |-> mock_pad, start |-> 0,
                     total_chunks |-> 1] >>,
     complete |-> << >>, errors |-> 0, raised |-> "none"]

\* a task running process_murf_and_stream, before its first step
NewMurfTask(s, text) ==
    [kind |-> "ws", sid |-> s, pc |-> "murf", text |-> text, mock |-> FALSE,
     total_size |-> 0, chunk_size |-> chunk_size, chunks |-> << >>,
     total_chunks |-> 0, idx |-> 0, emitted |-> << >>, complete |-> << >>,
     errors |-> 0, raised |-> "none"]

\* the session takes part in synthesis: the test of
\* _process_transcript_with_streaming_llm before process_murf_and_stream
SynthesisActive(s) == s \in murf_sessions

\* _process_transcript_with_streaming_llm(socket_id, transcript) once
\* generate_streaming_response returned success with response text; ev is
\* the event of the step, its status filled in here
AfterGeneration(s, text, ev) ==
    IF SynthesisActive(s)
    THEN IF CreateTaskRaises
         THEN \* caught by the inner try: "Murf integration error"
              /\ last_event' = [ev EXCEPT !.status = "complete_notask",
                                           !.blank = text.blank]
              /\ UNCHANGED tasks
         ELSE /\ Len(tasks) < MaxTasks
              /\ tasks' = Append(tasks, NewMurfTask(s, text))
              /\ last_event' = [ev EXCEPT !.status = "complete_task",
                                           !.blank = text.blank]
    ELSE /\ last_event' = [ev EXCEPT !.status = "complete_nosession",
                                      !.blank = text.blank]
         /\ UNCHANGED tasks

\* the test _process_transcript_with_streaming_llm makes before it calls
\* generate_streaming_response: llm_service.is_configured()
GenerationAllowed == llm_configured

RECURSIVE NumberChunksFromZero(_, _)
\* a callback that numbers a chunk before it counts it
NumberChunksFromZero(callbacks, chunk_counter) ==
    IF callbacks = << >> THEN << >>
    ELSE << chunk_counter >>
            \o NumberChunksFromZero(Tail(callbacks), chunk_counter + 1)

RECURSIVE NumberChunks(_, _)
\* streaming_callback, once for each chunk the generation hands over:
\* chunk_counter += 1, then llm_streaming_chunk with chunk_number =
\* chunk_counter; the chunk_number values emitted
NumberChunks(callbacks, chunk_counter) ==
    IF callbacks = << >> THEN << >>
    ELSE << chunk_counter + 1 >>
            \o NumberChunks(Tail(callbacks), chunk_counter + 1)

\* chunk_count = result.get('chunk_count', chunk_counter)
CompleteChunkCount(r) ==
    IF r.chunk_count = NoKey THEN Len(r.callbacks) ELSE r.chunk_count[1]

\* a turn that emits its terminal event before the chunks
TerminalBeforeChunks(callbacks, terminal) ==
    << terminal >> \o [k \in 1..Len(callbacks) |-> "llm_streaming_chunk"]

\* the generation events of a turn in the order of their emits: one
\* llm_streaming_chunk for each call of streaming_callback, made while
\* generate_streaming_response runs, then the event emitted for its result
TurnEvents(callbacks, terminal) ==
    [k \in 1..Len(callbacks) |-> "llm_streaming_chunk"] \o << terminal >>

\* _process_transcript_with_streaming_llm(socket_id, transcript)
ProcessTranscript(s, txt, ev) ==
    IF ~GenerationAllowed
    THEN \* llm_error 'LLM service not configured', then return
         /\ last_event' = [ev EXCEPT !.status = "llm_error",
                                     !.generation_events = TurnEvents(<< >>, "llm_error")]
         /\ UNCHANGED tasks
    ELSE \E r \in generate_streaming_response(txt) :
            IF r.success
            THEN AfterGeneration(s, [len |-> r.response.len, blank |-> r.response.blank],
                                 [ev EXCEPT !.model_used = r.model_used,
                                            !.chunk_numbers = NumberChunks(r.callbacks, 0),
                                            !.chunk_count = CompleteChunkCount(r),
                                            !.generation_events =
                                                TurnEvents(r.callbacks, "llm_streaming_complete")])
            ELSE /\ last_event' = [ev EXCEPT !.status = "llm_error",
                                             !.chunk_numbers = NumberChunks(r.callbacks, 0),
                                             !.fallback = r.fallback_response # None,
                                             !.generation_events =
                                                 TurnEvents(r.callbacks, "llm_error")]
                 /\ UNCHANGED tasks

\* handle_process_llm_request
process_llm_request(s, txt) ==
    /\ s \in connected
    /\ ProcessTranscript(s, txt, Event("llm", s, None, s, "none"))
    /\ UNCHANGED << env_vars, tts_vars, murf_stop_requested, service_call, connected, session_vars, stt_vars, murf_vars,
                    stop_tasks >>

\* handle_chat_message: generate_streaming_response is called without a
\* test of the configuration, and the result is emitted as chat_response
chat_message(s, txt) ==
    /\ s \in connected
    /\ \E r \in generate_streaming_response(txt) :
         last_event' = [Event("chat_response", s, None, None,
                              IF r.success THEN "success" ELSE "error")
                          EXCEPT !.model_used = r.model_used,
                                 !.blank = r.success /\ r.response.blank]
    /\ UNCHANGED << env_vars, tts_vars, murf_stop_requested, service_call, connected, session_vars, stt_vars, murf_vars,
                    task_vars >>

\* stripped transcript texts a backend message carries, by length:
\* empty, not longer than the threshold, longer
TranscriptLens == {0, min_transcript_len, min_transcript_len + 2}

\* the room _on_message delivers the transcripts of WebSocketApp w to: the
\* connection the stored callback closes over
TranscriptRoom(w) == transcription_callback

\* a partial transcript that also starts a turn
PartialEventWithTurn(w) ==
    Event("transcription", TranscriptRoom(w), ws_apps[w].owner,
          turn_detection_callback, "short")

\* what _on_message emits for a PartialTranscript: the transcription callback
\* runs, the turn callback does not
PartialEvent(w) ==
    Event("transcription", TranscriptRoom(w), ws_apps[w].owner, None, "partial")

\* _on_message for a PartialTranscript of n characters
on_partial(w, n) ==
    /\ ws_apps[w].state \in {"open", "closing"}
    /\ n > 0
    /\ transcription_callback # None
    /\ last_event' = PartialEvent(w)
    /\ UNCHANGED << env_vars, tts_vars, murf_stop_requested, service_call, connected, session_vars, stt_vars, murf_vars,
                    task_vars >>

\* the texts of the final transcripts the backend sends: one without a
\* keyword of a skill, one with the keyword of the first skill, one with
\* the keywords of the last two
FinalTexts == {PlainText, {"weather"}, {"study", "document"}}

\* _on_message for a FinalTranscript of n characters: the transcription
\* callback, then the turn callback (_on_turn_detected)
on_final(w, n) ==
    /\ ws_apps[w].state \in {"open", "closing"}
    /\ n > 0
    /\ transcription_callback # None
    /\ turn_detection_callback # None
    /\ LET ev == Event("final", TranscriptRoom(w), ws_apps[w].owner,
                       turn_detection_callback, "short")
       IN IF n > min_transcript_len
          THEN \E txt \in FinalTexts :
                  ProcessTranscript(turn_detection_callback, txt, ev)
          ELSE last_event' = ev /\ UNCHANGED tasks
    /\ UNCHANGED << env_vars, tts_vars, murf_stop_requested, service_call, connected, session_vars, stt_vars, murf_vars,
                    stop_tasks >>

\* _on_message for SessionBegins
on_session_begins(w) ==
    /\ ws_apps[w].state \in {"open", "closing"}
    /\ is_connected' = TRUE
    /\ UNCHANGED << env_vars, tts_vars, murf_stop_requested, service_call, connected, session_vars, ws, ws_apps,
                    connection_error, is_streaming, transcription_callback,
                    turn_detection_callback, starting, murf_vars, task_vars,
                    last_event >>

\* _on_message for SessionTerminated
on_session_terminated(w) ==
    /\ ws_apps[w].state \in {"open", "closing"}
    /\ is_connected' = FALSE
    /\ is_streaming' = FALSE
    /\ UNCHANGED << env_vars, tts_vars, murf_stop_requested, service_call, connected, session_vars, ws, ws_apps,
                    connection_error, transcription_callback,
                    turn_detection_callback, starting, murf_vars, task_vars,
                    last_event >>

(* ------------------------- synthesis sessions -------------------------- *)
\* handle_start_murf_websocket -> start_murf_websocket_sync: the thread that
\* runs start_murf_websocket is started and joined for at most 10 s
start_murf_websocket_sync(s) ==
    /\ s \in connected
    /\ murf_call[s] = "idle"
    /\ murf_call' = [murf_call EXCEPT ![s] = "waiting"]
    /\ murf_stop_requested' = murf_stop_requested \ {s}
    /\ UNCHANGED << env_vars, tts_vars, service_call, connected, session_vars, stt_vars, murf_websocket,
                    murf_is_connected, task_vars, last_event >>

\* MurfWebSocketService.connect: [returned, websocket, is_connected] for each
\* way it can end: no key; connected; websockets.connect raised (the except
\* branch returns True "for demo purposes")
ConnectOutcomes ==
    IF ~murf_api_key
    THEN {[ok |-> FALSE, websocket |-> murf_websocket, is_connected |-> murf_is_connected]}
    ELSE {[ok |-> TRUE, websocket |-> TRUE, is_connected |-> TRUE],
          [ok |-> TRUE, websocket |-> murf_websocket, is_connected |-> FALSE]}

\* websockets.connect returned: self.websocket is a new connection, on which
\* nothing was sent or received yet
Fresh(c) == c.ok /\ c.is_connected

\* start_murf_websocket, run by the thread of start_murf_websocket_sync; the
\* wrapper hands its result to the client unless it already timed out
start_murf_websocket(s) ==
    /\ murf_call[s] \in {"waiting", "timed_out"}
    /\ \E c \in ConnectOutcomes :
        /\ murf_websocket' = c.websocket
        /\ murf_is_connected' = c.is_connected
        /\ murf_sessions' = IF c.ok THEN murf_sessions \cup {s} ELSE murf_sessions
        /\ murf_wire' = IF Fresh(c) THEN << >> ELSE murf_wire
        /\ murf_inbox' = IF Fresh(c) THEN << >> ELSE murf_inbox
        /\ last_event' = IF murf_call[s] = "waiting"
                          THEN Event("murf_websocket_status", s, None, None,
                                     IF c.ok THEN "connected" ELSE "error")
                          ELSE last_event
    /\ murf_call' = [murf_call EXCEPT ![s] = "idle"]
    /\ UNCHANGED << env_vars, tts_calls, murf_stop_requested, service_call, connected, active_sessions, audio_streams,
                    transcription_sessions, stt_vars, task_vars >>

\* start_murf_websocket_sync: thread.join(timeout=10) ran out
murf_sync_timeout(s) ==
    /\ murf_call[s] = "waiting"
    /\ murf_call' = [murf_call EXCEPT ![s] = "timed_out"]
    /\ last_event' = Event("murf_websocket_status", s, None, None, "timeout")
    /\ UNCHANGED << env_vars, tts_vars, murf_stop_requested, service_call, connected, session_vars, stt_vars, murf_websocket,
                    murf_is_connected, task_vars >>

\* handle_stop_murf_websocket: asyncio.create_task(stop_murf_websocket(sid))
handle_stop_murf_websocket(s) ==
    /\ s \in connected
    /\ IF CreateTaskRaises
       THEN /\ last_event' = Event("murf_websocket_status", s, None, None, "error")
            /\ UNCHANGED stop_tasks
       ELSE /\ stop_tasks' = stop_tasks \cup {s}
            /\ last_event' = Event("murf_websocket_status", s, None, None, "disconnected")
    /\ murf_stop_requested' = murf_stop_requested \cup {s}
    /\ UNCHANGED << env_vars, tts_vars, service_call, connected, session_vars, stt_vars, murf_vars,
                    tasks >>

\* the scheduled stop_murf_websocket(socket_id) runs
stop_murf_websocket(s) ==
    /\ s \in stop_tasks
    /\ stop_tasks' = stop_tasks \ {s}
    /\ murf_sessions' = murf_sessions \ {s}
    /\ IF murf_sessions \ {s} = {}
       THEN \* MurfWebSocketService.disconnect
            /\ murf_websocket' = FALSE
            /\ murf_is_connected' = FALSE
            /\ murf_wire' = << >>
            /\ murf_inbox' = << >>
       ELSE UNCHANGED << murf_websocket, murf_is_connected, murf_wire, murf_inbox >>
    /\ UNCHANGED << env_vars, tts_calls, murf_stop_requested, service_call, connected, active_sessions, audio_streams,
                    transcription_sessions, stt_vars, murf_call, tasks,
                    last_event >>

(* ------------------------- synthesis and chunking ---------------------- *)
RECURSIVE Digits(_)
\* len(str(n)) for n >= 0
Digits(n) == IF n < 10 THEN 1 ELSE 1 + Digits(n \div 10)

\* len(str(datetime.now().timestamp())): the digits printed vary with the clock
TimestampLens == {12, 17}

\* _generate_mock_base64_audio: the length of the mock payload for a text of
\* textlen characters when the timestamp prints as ts characters
MockLen(textlen, ts) ==
    LET data == 25 + Digits(textlen) + 7 + ts
        b64 == 4 * ((data + 2) \div 3)
    IN b64 + (mock_pad - (b64 % mock_pad))

\* lengths of the audio_data a successful backend response carries: within
\* one chunk, and the longest payload tried
BackendAudioLens == {1, MaxChunks * chunk_size}

\* send_text_for_tts on a usable text: the payloads it can return, as
\* [len, mock], with the connection state it leaves
TtsOutcomes(text) ==
    LET mocks == {[len |-> MockLen(text.len, ts), mock |-> TRUE] : ts \in TimestampLens}
        reals == {[len |-> n, mock |-> FALSE] : n \in BackendAudioLens}
        keep == [websocket |-> murf_websocket, is_connected |-> murf_is_connected]
    IN IF ~murf_is_connected /\ ~murf_websocket
       THEN {[audio |-> a, conn |-> keep] : a \in mocks}
       ELSE IF ~murf_is_connected
       THEN UNION {
              IF ~c.ok
              THEN {[audio |-> a, conn |-> keep] : a \in mocks}
              ELSE {[audio |-> a, conn |-> [websocket |-> c.websocket,
                                            is_connected |-> c.is_connected]]
                      : a \in mocks \cup reals}
              : c \in ConnectOutcomes }
       ELSE {[audio |-> a, conn |-> keep] : a \in mocks \cup reals}

\* stream_audio_to_client up to its first emit: the chunks list is built
StartStreaming(t, audio) ==
    [t EXCEPT !.pc = "stream", !.mock = audio.mock, !.total_size = audio.len,
              !.chunks = SplitChunks(audio.len, t.chunk_size),
              !.total_chunks = Len(SplitChunks(audio.len, t.chunk_size))]

\* process_murf_and_stream: process_text_with_murf, then, on success, the
\* start of stream_audio_to_client
process_text_with_murf(i) ==
    /\ i \in 1..Len(tasks)
    /\ tasks[i].pc = "murf"
    /\ IF tasks[i].sid \notin murf_sessions \/ tasks[i].text.blank
       THEN /\ tasks' = [tasks EXCEPT ![i].pc = "no_audio"]
            /\ UNCHANGED << murf_websocket, murf_is_connected >>
       ELSE \E o \in TtsOutcomes(tasks[i].text) :
            /\ tasks' = [tasks EXCEPT ![i] = StartStreaming(@, o.audio)]
            /\ murf_websocket' = o.conn.websocket
            /\ murf_is_connected' = o.conn.is_connected
    /\ UNCHANGED << env_vars, tts_vars, murf_stop_requested, service_call, connected, session_vars, stt_vars, murf_call,
                    stop_tasks, last_event >>

(* ------------------- requests on the shared connection ----------------- *)
\* the texts one connection has synthesized, one after the other
MaxRounds == 2

\* a payload send_text_for_tts returns: mock or from the backend, and the
\* text (connection and round) it was generated for
Audio(mock, text) == [mock |-> mock, text |-> text]

\* the state of self.websocket a call sends on: as it is when is_connected,
\* after the connect() of the call otherwise
SendConnections ==
    IF murf_is_connected
    THEN {[ok |-> TRUE, websocket |-> murf_websocket, is_connected |-> TRUE,
           fresh |-> FALSE]}
    ELSE {[ok |-> c.ok, websocket |-> c.websocket, is_connected |-> c.is_connected,
           fresh |-> Fresh(c)] : c \in ConnectOutcomes}

\* another call is suspended in self.websocket.recv()
OtherWaiting(s) == \E t \in Sockets \ {s} : tts_calls[t].pc = "waiting"

\* a call that ends with payload a
CallDone(s, k, a) ==
    [tts_calls EXCEPT ![s] = [pc |-> "done", round |-> k, result |-> << a >>]]

\* process_text_with_murf -> send_text_for_tts(text) up to its
\* await of self.websocket.recv(): the mock payload when there is no
\* connection, else the request is sent; recv() raises when another call is
\* already waiting in it, and the except branch returns the mock payload
send_text_for_tts(s) ==
    /\ s \in murf_sessions
    /\ tts_calls[s].pc = "idle"
    /\ tts_calls[s].round < MaxRounds
    /\ LET k == tts_calls[s].round + 1
           text == << s, k >>
       IN IF ~murf_is_connected /\ ~murf_websocket
          THEN /\ tts_calls' = CallDone(s, k, Audio(TRUE, text))
               /\ UNCHANGED << murf_websocket, murf_is_connected, murf_wire, murf_inbox >>
          ELSE \E c \in SendConnections :
                 IF ~c.ok
                 THEN /\ tts_calls' = CallDone(s, k, Audio(TRUE, text))
                      /\ UNCHANGED << murf_websocket, murf_is_connected, murf_wire,
                                      murf_inbox >>
                 ELSE /\ murf_websocket' = c.websocket
                      /\ murf_is_connected' = c.is_connected
                      /\ murf_wire' = Append(IF c.fresh THEN << >> ELSE murf_wire, text)
                      /\ murf_inbox' = IF c.fresh THEN << >> ELSE murf_inbox
                      /\ tts_calls' =
                            IF OtherWaiting(s)
                            THEN CallDone(s, k, Audio(TRUE, text))
                            ELSE [tts_calls EXCEPT ![s] = [pc |-> "waiting", round |-> k,
                                                           result |-> << >>]]
    /\ UNCHANGED << env_vars, murf_stop_requested, service_call, connected, session_vars,
                    stt_vars, murf_call, task_vars, last_event >>

\* the synthesis backend answers the oldest request it has not answered
murf_responds ==
    /\ murf_wire # << >>
    /\ murf_inbox' = Append(murf_inbox, Head(murf_wire))
    /\ murf_wire' = Tail(murf_wire)
    /\ UNCHANGED << env_vars, murf_stop_requested, service_call, connected, session_vars,
                    stt_vars, murf_vars, task_vars, last_event, tts_calls >>

\* response_data = await asyncio.wait_for(self.websocket.recv(), 30.0)
\* returns: the next message of the connection; its audio_data is the result
tts_recv(s) ==
    /\ tts_calls[s].pc = "waiting"
    /\ murf_inbox # << >>
    /\ tts_calls' = CallDone(s, tts_calls[s].round, Audio(FALSE, Head(murf_inbox)))
    /\ murf_inbox' = Tail(murf_inbox)
    /\ UNCHANGED << env_vars, murf_stop_requested, service_call, connected, session_vars,
                    stt_vars, murf_vars, task_vars, last_event, murf_wire >>

\* except asyncio.TimeoutError: the mock payload; the request stays unanswered
tts_timeout(s) ==
    /\ tts_calls[s].pc = "waiting"
    /\ tts_calls' = CallDone(s, tts_calls[s].round, Audio(TRUE, << s, tts_calls[s].round >>))
    /\ UNCHANGED << env_vars, murf_stop_requested, service_call, connected, session_vars,
                    stt_vars, murf_vars, task_vars, last_event, murf_wire, murf_inbox >>

\* the caller has taken the payload
tts_return(s) ==
    /\ tts_calls[s].pc = "done"
    /\ tts_calls' = [tts_calls EXCEPT ![s].pc = "idle", ![s].result = << >>]
    /\ UNCHANGED << env_vars, murf_stop_requested, service_call, connected, session_vars,
                    stt_vars, murf_vars, task_vars, last_event, murf_wire, murf_inbox >>

(* ----------------------------- chunk pacing --------------------------- *)
\* stream_audio_to_client emits through self.socketio, and only when that
\* attribute is set; the test streams of main.py emit through the module's
\* socketio object
CanEmit(t) == IF t.kind = "ws" THEN has_socketio ELSE TRUE

\* a total that is counted while the chunks go out
DeclaredSoFar(t) == t.idx + 1

\* the total_chunks an event declares: len(chunks) in stream_audio_to_client,
\* the total_chunks variable in main.py
DeclaredTotal(t) == IF t.kind = "ws" THEN Len(t.chunks) ELSE t.total_chunks

\* the audio_chunk_streamed event of loop index t.idx (0-based)
ChunkEvent(t) ==
    [chunk_index |-> t.idx + 1,
     chunk_size |-> t.chunks[t.idx + 1].size,
     start |-> t.chunks[t.idx + 1].start,
     total_chunks |-> DeclaredTotal(t)]

\* the audio_stream_complete event
CompleteEvent(t) ==
    [total_chunks |-> DeclaredTotal(t), total_size |-> t.total_size]

\* a loop that leaves before its last chunk
LoopDoneEarly(t) == t.idx + 1 >= Len(t.chunks)

\* the loop over the chunks has run to its end
LoopDone(t) == t.idx >= Len(t.chunks)

\* one iteration of the loop went through: the chunk is emitted (when there
\* is something to emit through) and the pacing sleep follows
SentChunk(t) ==
    [t EXCEPT !.emitted = IF CanEmit(t) THEN Append(@, ChunkEvent(t)) ELSE @,
              !.idx = @ + 1]

\* an emit whose exception is swallowed inside the loop
RaisedSwallowed(t, what) ==
    [t EXCEPT !.idx = @ + 1, !.raised = what]

\* an emit raised: stream_audio_to_client goes to its except block, a
\* background task of main.py dies with the exception
Raised(t, what) ==
    [t EXCEPT !.pc = IF t.kind = "ws" THEN "except" ELSE "crashed",
              !.raised = what]

\* a loop iteration of stream_audio_to_client / stream_audio_chunks /
\* stream_real_audio / stream_demo_audio
stream_chunk(i) ==
    /\ i \in 1..Len(tasks)
    /\ tasks[i].pc = "stream"
    /\ ~LoopDone(tasks[i])
    /\ \/ tasks' = [tasks EXCEPT ![i] = SentChunk(@)]
       \/ /\ CanEmit(tasks[i])
          /\ tasks' = [tasks EXCEPT ![i] = Raised(@, "chunk")]
    /\ UNCHANGED << env_vars, tts_vars, murf_stop_requested, service_call, connected, session_vars, stt_vars, murf_vars,
                    stop_tasks, last_event >>

\* after the loop: the audio_stream_complete emit
stream_complete(i) ==
    /\ i \in 1..Len(tasks)
    /\ tasks[i].pc = "stream"
    /\ LoopDone(tasks[i])
    /\ \/ tasks' = [tasks EXCEPT ![i].pc = "done",
                                 ![i].complete = IF CanEmit(tasks[i])
                                                 THEN Append(@, CompleteEvent(tasks[i]))
                                                 ELSE @]
       \/ /\ CanEmit(tasks[i])
          /\ tasks' = [tasks EXCEPT ![i] = Raised(@, "complete")]
    /\ UNCHANGED << env_vars, tts_vars, murf_stop_requested, service_call, connected, session_vars, stt_vars, murf_vars,
                    stop_tasks, last_event >>

\* the except block of stream_audio_to_client: audio_stream_error is emitted
stream_error(i) ==
    /\ i \in 1..Len(tasks)
    /\ tasks[i].pc = "except"
    /\ tasks' = [tasks EXCEPT ![i].pc = "failed",
                              ![i].errors = IF has_socketio THEN @ + 1 ELSE @]
    /\ UNCHANGED << env_vars, tts_vars, murf_stop_requested, service_call, connected, session_vars, stt_vars, murf_vars,
                    stop_tasks, last_event >>

\* a background stream of handle_test_request over a payload of n characters
NewTestTask(s, kind, n, cs) ==
    [kind |-> kind, sid |-> s, pc |-> "stream", text |-> [len |-> 0, blank |-> TRUE],
     mock |-> FALSE, total_size |-> n, chunk_size |-> cs,
     chunks |-> MainChunks(n, cs), total_chunks |-> MainTotalChunks(n, cs),
     idx |-> 0, emitted |-> << >>, complete |-> << >>, errors |-> 0,
     raised |-> "none"]

\* handle_test_request when generate_speech succeeded: the Day 21 demo
\* stream, the Day 22 stream of the generated file, or the Day 22 demo stream
test_request(s) ==
    /\ s \in connected
    /\ Len(tasks) < MaxTasks
    /\ \/ tasks' = Append(tasks, NewTestTask(s, "demo21", demo21_len, demo_chunk_size))
       \/ \E n \in Base64Lens(real_chunk_size) :
            tasks' = Append(tasks, NewTestTask(s, "real22", n, real_chunk_size))
       \/ tasks' = Append(tasks, NewTestTask(s, "demo22", demo22_len, demo_chunk_size))
    /\ UNCHANGED << env_vars, tts_vars, murf_stop_requested, service_call, connected, session_vars, stt_vars, murf_vars,
                    stop_tasks, last_event >>

\* stream_audio_to_client(socket_id, base64_audio, original_text) called with
\* a payload of n characters
stream_audio_to_client(s, n) ==
    /\ Len(tasks) < MaxTasks
    /\ tasks' = Append(tasks, StartStreaming(NewMurfTask(s, [len |-> 11, blank |-> FALSE]),
                                             [len |-> n, mock |-> FALSE]))
    /\ UNCHANGED << env_vars, tts_vars, murf_stop_requested, service_call, connected, session_vars, stt_vars, murf_vars,
                    stop_tasks, last_event >>

\* a task or background thread that has ended is dropped
Ended(t) == t.pc \in {"no_audio", "done", "failed", "crashed"}

task_ended(i) ==
    /\ i \in 1..Len(tasks)
    /\ Ended(tasks[i])
    /\ tasks' = [k \in 1..(Len(tasks) - 1) |-> IF k < i THEN tasks[k] ELSE tasks[k + 1]]
    /\ UNCHANGED << env_vars, tts_vars, murf_stop_requested, service_call, connected, session_vars, stt_vars, murf_vars,
                    stop_tasks, last_event >>

(* ----------------------- services called directly ---------------------- *)
\* the fragments a stream is made of: an empty one, a space, a character,
\* and two long ones
FragmentTexts ==
    {Text(0, TRUE), Text(1, TRUE), Text(1, FALSE), Text(1500, FALSE), Text(2999, FALSE)}

\* the streams of up to MaxFragments fragments, completed or ended by an
\* exception
Streams ==
    {Stream(f, r) : f \in UNION {[1..n -> FragmentTexts] : n \in 0..MaxFragments},
                    r \in BOOLEAN}

\* the messages: the keywords of the skills and the words of
\* _generate_fallback_response they contain
Messages == {txt \cup w : txt \in TurnTexts, w \in SUBSET FallbackWords}

\* a test that takes any text after a trigger word for content
AnyTextIsContent(n) == n > 0

\* len(parts[1].strip()) > 20
ContentLongEnough(n) == n > min_content_len

\* study messages: whether a study keyword is in it, whether it holds a
\* URL, the characters that follow each trigger word it contains (in the
\* order of study_triggers), and its length
StudyMessages ==
    {[keyword |-> k, url |-> u, after |-> a, len |-> n] :
        k \in BOOLEAN, u \in BOOLEAN,
        a \in UNION {[1..j -> {3, min_content_len, min_content_len + 1}] : j \in 0..2},
        n \in {26, min_message_len, min_message_len + 1}}

RECURSIVE ContentAfterTrigger(_)
\* for trigger in study_triggers: the first trigger followed by enough text
ContentAfterTrigger(after) ==
    IF after = << >> THEN FALSE
    ELSE ContentLongEnough(Head(after)) \/ ContentAfterTrigger(Tail(after))

\* _extract_study_content(message): where the content was found, "" for none
extract_study_content(m) ==
    IF m.url THEN "url"
    ELSE IF ContentAfterTrigger(m.after) THEN "after_trigger"
    ELSE IF m.len > min_message_len THEN "message"
    ELSE ""

\* _handle_study_request(message): None for a message without a study
\* keyword, the request for content when there is none, the analysis of the
\* content otherwise
handle_study_request(m) ==
    IF ~m.keyword
    THEN [claimed |-> FALSE, success |-> FALSE, model_used |-> None, reply |-> None]
    ELSE [claimed |-> TRUE, success |-> TRUE, model_used |-> Marker("study"),
          reply |-> IF extract_study_content(m) = "" THEN "ask_content"
                    ELSE "analysis"]

\* a call of _handle_study_request(message)
study_call(m) ==
    /\ service_call = NoCall
    /\ service_call' = [fn |-> "_handle_study_request", arg |-> m,
                        result |-> handle_study_request(m)]
    /\ UNCHANGED << env_vars, tts_vars, murf_stop_requested, connected, session_vars, stt_vars, murf_vars,
                    task_vars, last_event >>

\* datetime.now().timestamp(): the microseconds past the second
Clock == {0, 500000, 123456, 654321}

RECURSIVE FractionDigits(_, _)
\* the digits str() prints after the point for a fraction of micro
\* microseconds, written with d digits: trailing zeros are dropped, one
\* digit is always printed
FractionDigits(micro, d) ==
    IF d = 1 \/ micro % 10 # 0 THEN d
    ELSE FractionDigits(micro \div 10, d - 1)

\* len(str(datetime.now().timestamp())): ten digits, the point, the fraction
TimestampLen(now) == 10 + 1 + FractionDigits(now, 6)

\* the texts synthesized, by length
MockTextLens == {1, 11, skill_reply_len}

\* _generate_mock_base64_audio(text) called at time now: the payload, by its
\* length and by what its characters encode, the length of the text and
\* the timestamp
generate_mock_base64_audio(textlen, now) ==
    [len |-> MockLen(textlen, TimestampLen(now)), text_len |-> textlen,
     timestamp |-> now]

\* a call of _generate_mock_base64_audio(text), the first one or the one
\* that follows another
mock_audio_call(textlen, now) ==
    /\ service_call.fn \in {"none", "_generate_mock_base64_audio"}
    /\ service_call' = [fn |-> "_generate_mock_base64_audio",
                        arg |-> textlen,
                        result |-> generate_mock_base64_audio(textlen, now)]
    /\ UNCHANGED << env_vars, tts_vars, murf_stop_requested, connected, session_vars, stt_vars, murf_vars,
                    task_vars, last_event >>

\* a call of generate_streaming_response(messages, current_message,
\* callback=...) made while no other call is recorded
generation_call(txt, st) ==
    /\ service_call = NoCall
    /\ service_call' = [fn |-> "generate_streaming_response",
                        arg |-> [txt |-> txt, st |-> st],
                        result |-> GenerateOnStream(txt, st)]
    /\ UNCHANGED << env_vars, tts_vars, murf_stop_requested, connected, session_vars, stt_vars, murf_vars,
                    task_vars, last_event >>

\* the caller has taken the result
call_return ==
    /\ service_call # NoCall
    /\ service_call' = NoCall
    /\ UNCHANGED << env_vars, tts_vars, murf_stop_requested, connected, session_vars, stt_vars, murf_vars,
                    task_vars, last_event >>

(* ---------------------------- specifications --------------------------- *)
\* the steps of the asyncio tasks and background threads
TaskStep ==
    \E i \in 1..MaxTasks :
        \/ process_text_with_murf(i)
        \/ stream_chunk(i)
        \/ stream_complete(i)
        \/ stream_error(i)
        \/ task_ended(i)

\* the callbacks of the recognition backend's threads
BackendStep ==
    \E w \in 1..MaxWs :
        /\ w <= Len(ws_apps)
        /\ \/ on_open(w)
           \/ on_error(w)
           \/ on_close(w)
           \/ \E n \in TranscriptLens : on_partial(w, n)
           \/ \E n \in TranscriptLens : on_final(w, n)
           \/ on_session_begins(w)
           \/ on_session_terminated(w)

\* the Socket.IO events of the clients and the threads they leave behind
ClientStep ==
    \E s \in Sockets :
        \/ \E id \in SessionIds : register_session(id, s)
        \/ unregister_session(s)
        \/ start_realtime_transcription(s)
        \/ start_streaming_return(s)
        \/ stop_realtime_transcription(s)
        \/ audio_chunk(s)
        \/ echo_message(s)
        \/ \E txt \in TurnTexts : chat_message(s, txt)
        \/ \E txt \in TurnTexts : process_llm_request(s, txt)
        \/ start_murf_websocket_sync(s)
        \/ start_murf_websocket(s)
        \/ murf_sync_timeout(s)
        \/ handle_stop_murf_websocket(s)
        \/ stop_murf_websocket(s)
        \/ test_request(s)

\* the calls of the service functions on their own
ServiceStep ==
    \/ /\ service_call = NoCall
       /\ \E txt \in Messages, st \in Streams : generation_call(txt, st)
    \/ \E m \in StudyMessages : study_call(m)
    \/ \E textlen \in MockTextLens, now \in Clock : mock_audio_call(textlen, now)
    \/ call_return

\* the requests on the shared synthesis connection and their answers
SynthesisStep ==
    \/ \E s \in Sockets :
        \/ send_text_for_tts(s)
        \/ tts_recv(s)
        \/ tts_timeout(s)
        \/ tts_return(s)
    \/ murf_responds

Next == ClientStep \/ BackendStep \/ TaskStep \/ ServiceStep \/ SynthesisStep

Spec == Init /\ [][Next]_vars

\* The component specifications: each enables the operations of one part of
\* the program and leaves the rest of the state as constructed, so every
\* behaviour of a component is a behaviour of Spec.

\* stream_audio_to_client and the test streams of main.py, one stream at a
\* time, for payloads of every length tried, while sessions register and
\* disconnect
StreamInit ==
    /\ Init
    /\ ~stt_api_key /\ ~murf_api_key /\ ~llm_configured /\ ~loop_running

StreamNext ==
    \/ \E s \in Sockets :
        \/ register_session("s1", s)
        \/ unregister_session(s)
        \/ tasks = << >> /\ test_request(s)
        \/ \E n \in PayloadLens(chunk_size) :
              tasks = << >> /\ s \in connected /\ stream_audio_to_client(s, n)
    \/ \E i \in 1..MaxTasks :
        \/ stream_chunk(i)
        \/ stream_complete(i)
        \/ stream_error(i)
        \/ task_ended(i)

StreamSpec == StreamInit /\ [][StreamNext]_vars

\* the synthesis sessions and the turn pipeline behind them: generation,
\* synthesis, chunk pacing, one turn at a time, with sessions registering
\* and disconnecting
\* the generation backend is configured: its failure stays one of the outcomes
\* of a turn
SynthInit == Init /\ ~stt_api_key /\ llm_configured

SynthNext ==
    \/ \E s \in Sockets :
        \/ register_session("s1", s)
        \/ unregister_session(s)
        \/ tasks = << >> /\ process_llm_request(s, PlainText)
        \/ start_murf_websocket_sync(s)
        \/ start_murf_websocket(s)
        \/ murf_sync_timeout(s)
        \/ stop_murf_websocket(s)
    \/ TaskStep

SynthSpec == SynthInit /\ [][SynthNext]_vars

\* the synthesis sessions with the stop events of the clients: start, stop
\* and turns of the connections, a turn being processed when no scheduled
\* stop and no task is pending
StopInit ==
    /\ Init
    /\ ~stt_api_key /\ llm_configured

StopNext ==
    \/ \E s \in Sockets :
        \/ start_murf_websocket_sync(s)
        \/ start_murf_websocket(s)
        \/ murf_sync_timeout(s)
        \/ handle_stop_murf_websocket(s)
        \/ stop_murf_websocket(s)
        \/ tasks = << >> /\ stop_tasks = {} /\ process_llm_request(s, PlainText)
    \/ TaskStep

StopSpec == StopInit /\ [][StopNext]_vars

\* the synthesis requests of the connections on the shared connection of
\* MurfWebSocketService, with the backend answering them
TtsInit ==
    /\ Init
    /\ ~stt_api_key /\ murf_api_key /\ ~llm_configured /\ ~has_socketio /\ loop_running

TtsNext ==
    \/ \E s \in Sockets :
        \/ start_murf_websocket_sync(s)
        \/ start_murf_websocket(s)
        \/ murf_sync_timeout(s)
        \/ send_text_for_tts(s)
        \/ tts_recv(s)
        \/ tts_timeout(s)
        \/ tts_return(s)
    \/ murf_responds

TtsSpec == TtsInit /\ [][TtsNext]_vars

\* the recognition streams: sessions, start and stop of transcription, and
\* the callbacks of the backend's threads
RecogInit ==
    /\ Init
    /\ ~murf_api_key /\ ~has_socketio /\ ~loop_running

RecogNext ==
    \/ \E s \in Sockets :
        \/ \E id \in SessionIds : register_session(id, s)
        \/ unregister_session(s)
        \/ start_realtime_transcription(s)
        \/ start_streaming_return(s)
        \/ stop_realtime_transcription(s)
    \/ BackendStep

RecogSpec == RecogInit /\ [][RecogNext]_vars

\* the turns of connections that take part in synthesis, with an event loop
\* running so that the synthesis-and-streaming tasks are scheduled: turns may
\* arrive while the tasks of earlier turns are still running
OverlapInit ==
    /\ Init
    /\ ~stt_api_key /\ llm_configured /\ loop_running

OverlapNext ==
    \/ \E s \in Sockets :
        \/ start_murf_websocket_sync(s)
        \/ start_murf_websocket(s)
        \/ process_llm_request(s, PlainText)
    \/ TaskStep

OverlapSpec == OverlapInit /\ [][OverlapNext]_vars

\* the recognition streams alone: start and stop of transcription and the
\* callbacks of the backend's threads, for connections that stay connected,
\* with the generation backend configured so that every turn reaches it
TurnInit == RecogInit /\ llm_configured

TurnNext ==
    \/ \E s \in Sockets :
        \/ start_realtime_transcription(s)
        \/ start_streaming_return(s)
        \/ stop_realtime_transcription(s)
    \/ BackendStep

TurnSpec == TurnInit /\ [][TurnNext]_vars

\* the recognition streams with the audio the clients send
AudioInit == TurnInit

AudioNext ==
    \/ TurnNext
    \/ \E s \in Sockets : audio_chunk(s)

AudioSpec == AudioInit /\ [][AudioNext]_vars

\* the replies to turns and chat messages of every kind of text, with and
\* without a configured generation backend, while sessions register and
\* disconnect
ReplyInit ==
    /\ Init
    /\ ~stt_api_key /\ ~murf_api_key /\ ~has_socketio /\ ~loop_running

ReplyNext ==
    \E s \in Sockets :
        \/ \E id \in SessionIds : register_session(id, s)
        \/ unregister_session(s)
        \/ \E txt \in TurnTexts : process_llm_request(s, txt)
        \/ \E txt \in TurnTexts : chat_message(s, txt)

ReplySpec == ReplyInit /\ [][ReplyNext]_vars

\* the service functions called on their own, with and without a configured
\* generation backend
ServiceInit ==
    /\ Init
    /\ ~stt_api_key /\ ~murf_api_key /\ ~has_socketio /\ ~loop_running

ServiceNext == ServiceStep

ServiceSpec == ServiceInit /\ [][ServiceNext]_vars

\* the pipeline of a turn behind its generation: synthesis and chunk pacing
\* for connections that take part in synthesis, one turn at a time, with an
\* event loop running
PipelineInit ==
    /\ Init
    /\ ~stt_api_key /\ llm_configured /\ loop_running

PipelineNext ==
    \/ \E s \in Sockets :
        \/ start_murf_websocket_sync(s)
        \/ start_murf_websocket(s)
        \/ tasks = << >> /\ process_llm_request(s, PlainText)
    \/ TaskStep

PipelineSpec == PipelineInit /\ [][PipelineNext]_vars

\* the session registry: connections register, re-register, send messages
\* and disconnect
RegistryInit ==
    /\ Init
    /\ ~stt_api_key /\ ~murf_api_key /\ ~has_socketio /\ ~loop_running

RegistryNext ==
    \E s \in Sockets :
        \/ \E id \in SessionIds : register_session(id, s)
        \/ unregister_session(s)
        \/ echo_message(s)

RegistrySpec == RegistryInit /\ [][RegistryNext]_vars

(* ------------------- the text the callback is handed ------------------- *)
RECURSIVE SumSeq(_)
\* the sum of a sequence of numbers
SumSeq(q) == IF q = << >> THEN 0 ELSE Head(q) + SumSeq(Tail(q))

\* the model_used markers of the replies of the skills
SkillMarkers == {Marker(Interceptors[k]) : k \in 1..Len(Interceptors)}

\* accumulated_text of streaming_callback (accumulated_text += chunk) when
\* generate_streaming_response has returned r: the characters of the
\* fragments the callback was handed
AccumulatedChars(r) ==
    IF r.model_used \in SkillMarkers
    THEN \* ' '.join(words[i:i+3]) + ' ': the characters of the words of the
         \* reply, and for a group of g words g - 1 joining spaces and one more
         (r.response.len - (skill_reply_words - 1)) + SumSeq(r.callbacks)
    ELSE IF r.model_used = "fallback-for-day20-testing"
    THEN \* chunk + '. ' for the sentences split('. ') took it from,
         \* chunk + ' ' for the last one, which ends with '.'
         (r.response.len - 2 * (fallback_sentences - 1))
             + 2 * (fallback_sentences - 1) + 1
    ELSE \* callback(chunk.text) for each counted fragment
         SumSeq(r.callbacks)

(* ------------------------------- claims -------------------------------- *)
RECURSIVE SumSizes(_)
\* the chunk_size values of a sequence of audio_chunk_streamed events, summed
SumSizes(events) ==
    IF events = << >> THEN 0
    ELSE events[1].chunk_size + SumSizes(Tail(events))

\* the steps that keep the positions of the streams in tasks (all but the
\* removal of an ended one)
SameStreams == Len(tasks') >= Len(tasks)

\* C1: for every payload length, the audio_chunk_streamed events of a stream
\* carry chunk_index 1..N without gap or repeat, and once
\* audio_stream_complete is emitted the chunk_size values sum to its
\* total_size, the length of the payload.
C1_IndicesAndSizes ==
    \A i \in 1..Len(tasks) :
        LET t == tasks[i]
        IN /\ \A k \in 1..Len(t.emitted) : t.emitted[k].chunk_index = k
           /\ t.complete # << >> =>
                /\ t.complete[1].total_size = t.total_size
                /\ SumSizes(t.emitted) = t.complete[1].total_size

\* stream_audio_to_client completed a payload of exactly two chunk sizes
C1_Witness ==
    \E i \in 1..Len(tasks) :
        /\ tasks[i].kind = "ws"
        /\ tasks[i].total_size = 2 * chunk_size
        /\ Len(tasks[i].emitted) = 2
        /\ tasks[i].complete # << >>

\* C2: within one stream every audio_chunk_streamed event carries a larger
\* chunk_index than all events before it, audio_stream_complete is emitted
\* only when every chunk of the payload has been emitted, and no chunk
\* follows it.
C2_OrderedThenComplete ==
    [][SameStreams =>
        \A i \in 1..Len(tasks) :
            LET t == tasks[i]
                u == tasks'[i]
            IN /\ u.emitted # t.emitted =>
                    /\ Len(u.emitted) = Len(t.emitted) + 1
                    /\ SubSeq(u.emitted, 1, Len(t.emitted)) = t.emitted
                    /\ \A k \in 1..Len(t.emitted) :
                          t.emitted[k].chunk_index < u.emitted[Len(u.emitted)].chunk_index
                    /\ t.complete = << >>
               /\ u.complete # t.complete =>
                    /\ t.complete = << >>
                    /\ u.emitted = t.emitted
                    /\ Len(t.emitted) = Len(t.chunks)]_vars

\* the Day 22 stream of a generated file completed after three chunks
C2_Witness ==
    \E i \in 1..Len(tasks) :
        /\ tasks[i].kind = "real22"
        /\ Len(tasks[i].emitted) = 3
        /\ tasks[i].complete # << >>

\* C3: every audio_chunk_streamed event of one stream carries the same
\* total_chunks, the number of chunks fixed before the first one is sent, and
\* audio_stream_complete carries that value too.
C3_TotalChunksFixed ==
    \A i \in 1..Len(tasks) :
        LET t == tasks[i]
        IN /\ \A k \in 1..Len(t.emitted) : t.emitted[k].total_chunks = Len(t.chunks)
           /\ \A k \in 1..Len(t.complete) : t.complete[k].total_chunks = Len(t.chunks)

\* stream_audio_to_client completed a payload one character over a chunk size
C3_Witness ==
    \E i \in 1..Len(tasks) :
        /\ tasks[i].kind = "ws"
        /\ tasks[i].total_size = chunk_size + 1
        /\ Len(tasks[i].emitted) = 2
        /\ tasks[i].complete # << >>

TurnGenerated(s) ==
    /\ last_event' # last_event
    /\ last_event'.turn = s
    /\ last_event'.status \in {"complete_task", "complete_notask", "complete_nosession"}
    /\ ~last_event'.blank

\* C5: a turn with non-empty generated text of a session that takes part in
\* synthesis starts the synthesis-and-streaming task, and a task that has
\* streamed a mock payload has emitted audio_stream_complete with the chunk
\* count of that payload.
C5_MockStreamOnFailure ==
    [][/\ \A s \in Sockets :
            (TurnGenerated(s) /\ s \in murf_sessions) =>
                last_event'.status = "complete_task"
       /\ \A i \in 1..Len(tasks') :
            (tasks'[i].kind = "ws" /\ tasks'[i].mock /\ tasks'[i].pc = "done") =>
                /\ tasks'[i].complete # << >>
                /\ tasks'[i].complete[1].total_chunks =
                      Len(SplitChunks(tasks'[i].total_size, chunk_size))]_vars

\* C6: when unregister_session(c) returns, c is in none of active_sessions,
\* transcription_sessions, murf_sessions and audio_streams, and the
\* recognition stream it had opened is not left connecting or open.
C6_UnregisterRemovesAll ==
    [][\A s \in Sockets :
        unregister_session(s) =>
            /\ s \notin DOMAIN active_sessions'
            /\ s \notin transcription_sessions'
            /\ s \notin murf_sessions'
            /\ s \notin audio_streams'
            /\ (s \in transcription_sessions =>
                  \A w \in 1..Len(ws_apps') :
                      ws_apps'[w].owner = s =>
                          ws_apps'[w].state \notin {"connecting", "open"})]_vars

\* C7: no audio_chunk_streamed and no audio_stream_complete is emitted for a
\* connection that has been unregistered.
C7_NoEmitAfterUnregister ==
    [][SameStreams =>
        \A i \in 1..Len(tasks) :
            (tasks'[i].emitted # tasks[i].emitted
                \/ tasks'[i].complete # tasks[i].complete) =>
                tasks[i].sid \in connected]_vars

\* C8: register_session for a connection that has a session with an active
\* recognition stream stops that stream: afterwards the connection is not in
\* transcription_sessions and none of its backend connections is open.
C8_RegisterStopsStream ==
    [][\A s \in Sockets, id \in SessionIds :
        (/\ register_session(id, s)
         /\ s \in DOMAIN active_sessions
         /\ s \in transcription_sessions) =>
            /\ s \notin transcription_sessions'
            /\ \A w \in 1..Len(ws_apps') :
                  ws_apps'[w].owner = s =>
                      ws_apps'[w].state \notin {"connecting", "open"}]_vars

\* the backend connections opened for connection s that are open
OpenStreams(s) ==
    {w \in 1..Len(ws_apps) : ws_apps[w].owner = s /\ ws_apps[w].state = "open"}

\* C9: at every reachable state each session has at most one open
\* recognition stream.
C9_OneOpenStream ==
    \A s \in Sockets : Cardinality(OpenStreams(s)) <= 1

\* C10: every transcript and turn event that stems from the recognition
\* stream of one connection is delivered to that connection only.
C10_TranscriptsToOwner ==
    last_event.type \in {"transcription", "final"} =>
        /\ last_event.sid = last_event.from
        /\ last_event.turn \in {None, last_event.from}

\* the stream has sent some of its chunks and has more to send
MidStream(t) ==
    t.pc = "stream" /\ t.emitted # << >> /\ ~LoopDone(t)

GenerationResults ==
    {"llm_error", "complete_task", "complete_notask", "complete_nosession"}

\* C12: an event that starts a turn, and the generation behind it, is
\* produced only by a FinalTranscript message: whatever a PartialTranscript
\* message emits starts no turn, invokes no generation and creates no task.
C12_TurnsOnlyFromFinal ==
    [][last_event' # last_event =>
        /\ (last_event'.turn # None \/ last_event'.status \in GenerationResults) =>
              last_event'.type = "final"
        /\ last_event'.type = "transcription" => tasks' = tasks]_vars

\* a PartialTranscript was delivered on a stream that is open and streaming
C12_Witness ==
    /\ last_event.type = "transcription"
    /\ last_event.status = "partial"
    /\ is_streaming
    /\ turn_detection_callback # None

\* C13: a turn is created only from a final transcript longer than the
\* threshold, and every turn feeds one generation invocation: the event of a
\* FinalTranscript that starts a turn carries the result of its generation.
C13_TurnOnlyAboveThreshold ==
    (last_event.type = "final" /\ last_event.turn # None) =>
        last_event.status \in GenerationResults

\* C14: without recognition credentials start_realtime_transcription answers
\* with the configuration error, creates no backend connection, and leaves
\* the connection out of transcription_sessions with is_streaming and
\* is_connected false.
C14_NoCredentialsNoStream ==
    [][\A s \in Sockets :
        (~stt_api_key /\ start_realtime_transcription(s)) =>
            /\ last_event' = Event("transcription_status", s, None, None, "error_config")
            /\ ws_apps' = << >>
            /\ ws' = 0
            /\ s \notin starting'
            /\ s \notin transcription_sessions'
            /\ ~is_streaming' /\ ~is_connected']_vars

\* a start was answered with the configuration error
C14_Witness ==
    /\ ~stt_api_key
    /\ last_event.type = "transcription_status"
    /\ last_event.status = "error_config"

\* C15: when start_streaming_transcription returns failure, the connection
\* is not recorded in transcription_sessions and none of the backend
\* connections opened for it is left connecting or open.
C15_FailedStartLeavesNoStream ==
    [][\A s \in Sockets :
        (start_streaming_return(s) /\ ~StartSucceeds) =>
            /\ s \notin transcription_sessions'
            /\ \A w \in 1..Len(ws_apps') :
                  ws_apps'[w].owner = s =>
                      ws_apps'[w].state \notin {"connecting", "open"}]_vars

\* the recognition stream connection s started is open
StreamOpen(s) ==
    /\ s \in transcription_sessions
    /\ is_streaming
    /\ ws # 0
    /\ ws_apps[ws].owner = s
    /\ ws_apps[ws].state = "open"

\* C16: an audio chunk a connection sends while its recognition stream is
\* open is forwarded to the recognition backend.
C16_AudioForwardedWhileOpen ==
    [][\A s \in Sockets :
        (audio_chunk(s) /\ StreamOpen(s)) =>
            last_event'.status = "forwarded"]_vars

C18_BackendFailureReported ==
    [][\A w \in 1..Len(ws_apps) :
        (/\ on_error(w) \/ on_close(w)
         /\ ws_apps[w].state = "open"
         /\ ws_apps[w].owner \in transcription_sessions) =>
            /\ ws_apps[w].owner \notin transcription_sessions'
            /\ last_event'.type = "transcription_status"
            /\ last_event'.sid = ws_apps[w].owner
            /\ last_event'.status \in {"error", "error_connect"}]_vars

\* the turn of connection s ended with the reply of the given marker
TurnRepliedBy(s, marker) ==
    /\ last_event'.turn = s
    /\ last_event'.status \in {"complete_task", "complete_notask", "complete_nosession"}
    /\ last_event'.model_used = marker

\* C19: a turn whose text an interceptor claims is answered by the first
\* interceptor, in the order weather, web search, study, document, that
\* claims it: the turn completes with that skill's model_used marker.
C19_FirstClaimDecidesReply ==
    [][\A s \in Sockets, txt \in TurnTexts :
        (process_llm_request(s, txt) /\ FirstClaim(txt) # None) =>
            TurnRepliedBy(s, Marker(FirstClaim(txt)))]_vars

\* C20: a turn that no interceptor claims, processed with the generation
\* backend unconfigured, completes with the scripted fallback reply and its
\* fallback marker, and is not reported as an error.
C20_FallbackWhenUnconfigured ==
    [][\A s \in Sockets, txt \in TurnTexts :
        (process_llm_request(s, txt) /\ FirstClaim(txt) = None /\ ~llm_configured) =>
            TurnRepliedBy(s, "fallback-for-day20-testing")]_vars

\* the recorded call is a generation whose backend stream was opened
StreamOpened ==
    /\ service_call.fn = "generate_streaming_response"
    /\ llm_configured
    /\ FirstClaim(service_call.arg.txt) = None

RECURSIVE SumLens(_)
\* the characters of a sequence of fragments
SumLens(frags) ==
    IF frags = << >> THEN 0 ELSE Head(frags).len + SumLens(Tail(frags))

\* C21: when the generation stream completes and none of its fragments had
\* any text, generate_streaming_response returns success false with the
\* empty-response error and a fallback message, and the callback was never
\* invoked.
C21_EmptyStreamFails ==
    (/\ StreamOpened
     /\ ~service_call.arg.st.raises
     /\ SumLens(service_call.arg.st.frags) = 0) =>
        /\ ~service_call.result.success
        /\ service_call.result.error = "empty"
        /\ service_call.result.fallback_response = "apology"
        /\ service_call.result.callbacks = << >>

\* a stream of two empty fragments was consumed to its end
C21_Witness ==
    /\ StreamOpened
    /\ service_call.arg.st = Stream(<< Text(0, TRUE), Text(0, TRUE) >>, FALSE)
    /\ ~service_call.result.success

\* C22: an exception at the opening of the generation stream, or while it
\* is consumed, makes generate_streaming_response return success false with
\* the fallback message of the first of greeting, trouble report and help
\* whose words the message contains, the generic one otherwise.
C22_ExceptionGivesFallback ==
    (StreamOpened /\ service_call.arg.st.raises) =>
        /\ ~service_call.result.success
        /\ service_call.result.error = "exception"
        /\ service_call.result.fallback_response =
              (IF "greeting" \in service_call.arg.txt THEN "greeting"
               ELSE IF "trouble" \in service_call.arg.txt THEN "trouble"
               ELSE IF "help" \in service_call.arg.txt THEN "help"
               ELSE "generic")

\* the stream of a message with a trouble word and a help word raised after
\* its first fragment
C22_Witness ==
    /\ StreamOpened
    /\ service_call.arg.txt = {"trouble", "help"}
    /\ service_call.arg.st = Stream(<< Text(1, FALSE) >>, TRUE)
    /\ service_call.result.fallback_response = "trouble"

\* C23: the response of a successful backend generation is never longer
\* than max_response_len: a text longer than that is cut and ends with the
\* ellipsis, a text of up to max_response_len characters is returned as it
\* was accumulated.
C23_ResponseWithinLimit ==
    (StreamOpened /\ service_call.result.success) =>
        LET n == SumLens(service_call.arg.st.frags)
            r == service_call.result.response
        IN /\ r.len <= max_response_len
           /\ n > max_response_len => r.ellipsis /\ r.len < n
           /\ n <= max_response_len => ~r.ellipsis /\ r.len = n

\* a text of max_response_len + 1 characters was generated and cut
C23_Witness ==
    /\ StreamOpened
    /\ service_call.result.success
    /\ SumLens(service_call.arg.st.frags) = max_response_len + 1
    /\ service_call.result.response.ellipsis

\* C24: the llm_streaming_chunk events of a turn carry the chunk_number
\* values 1, 2, ..., k, whatever turns came before, and the chunk_count of
\* the llm_streaming_complete of the turn is k.
C24_ChunkNumbersContiguous ==
    last_event.status \in GenerationResults =>
        /\ \A k \in 1..Len(last_event.chunk_numbers) : last_event.chunk_numbers[k] = k
        /\ last_event.status # "llm_error" =>
              last_event.chunk_count = Len(last_event.chunk_numbers)

\* a turn answered by the backend in two fragments around an empty one
C24_Witness ==
    /\ last_event.status = "complete_nosession"
    /\ last_event.model_used = "gemini-1.5-flash"
    /\ last_event.chunk_numbers = << 1, 2 >>
    /\ last_event.chunk_count = 2

\* C25: the synthesis-and-streaming task of a turn is created by the step
\* that emits the llm_streaming_complete of that turn, one task for one
\* completed generation, with no payload and no chunk sent yet; a task is
\* handed its payload once, by its synthesis request, and sends chunks only
\* after that.
C25_SynthesisAfterGeneration ==
    [][/\ Len(tasks') > Len(tasks) =>
            /\ Len(tasks') = Len(tasks) + 1
            /\ last_event'.status = "complete_task"
            /\ last_event'.turn = tasks'[Len(tasks')].sid
            /\ last_event'.chunk_count = Len(last_event'.chunk_numbers)
            /\ tasks'[Len(tasks')].pc = "murf"
            /\ tasks'[Len(tasks')].chunks = << >>
            /\ tasks'[Len(tasks')].emitted = << >>
       /\ Len(tasks') = Len(tasks) =>
            \A i \in 1..Len(tasks) :
                /\ tasks'[i].chunks # tasks[i].chunks =>
                      tasks[i].pc = "murf" /\ tasks[i].chunks = << >>
                /\ tasks'[i].emitted # tasks[i].emitted =>
                      tasks[i].pc = "stream" /\ tasks[i].chunks # << >>]_vars

\* the task of a completed turn has sent the only chunk of its payload
C25_Witness ==
    /\ last_event.status = "complete_task"
    /\ Len(tasks) = 1
    /\ tasks[1].sid = last_event.turn
    /\ tasks[1].pc = "done"
    /\ Len(tasks[1].emitted) = 1

C27_CountFollowsRegistry ==
    [][/\ \A s \in Sockets, id \in SessionIds :
            register_session(id, s) =>
                /\ active_sessions'[s] = [session_id |-> id, message_count |-> 0]
                /\ DOMAIN active_sessions' = DOMAIN active_sessions \cup {s}
                /\ Cardinality(DOMAIN active_sessions') =
                      Cardinality(DOMAIN active_sessions)
                        + (IF s \in DOMAIN active_sessions THEN 0 ELSE 1)
       /\ \A s \in Sockets :
            unregister_session(s) =>
                /\ DOMAIN active_sessions' = DOMAIN active_sessions \ {s}
                /\ Cardinality(DOMAIN active_sessions') =
                      Cardinality(DOMAIN active_sessions)
                        - (IF s \in DOMAIN active_sessions THEN 1 ELSE 0)
       /\ \A s \in Sockets :
            echo_message(s) => DOMAIN active_sessions' = DOMAIN active_sessions]_vars

\* one connection has registered and sent messages, the other has
\* disconnected: one session is counted
C27_Witness ==
    /\ connected = {"A"}
    /\ DOMAIN active_sessions = {"A"}
    /\ active_sessions["A"].message_count = MaxMessages
    /\ get_active_sessions_count = 1

\* C28: every llm_error event of a turn carries a fallback_response.
C28_ErrorCarriesFallback ==
    last_event.status = "llm_error" => last_event.fallback

\* C29: two calls of _generate_mock_base64_audio with the same text, made
\* one after the other at any two times, return the same payload.
C29_MockPayloadDeterministic ==
    [][(/\ service_call.fn = "_generate_mock_base64_audio"
        /\ service_call'.fn = "_generate_mock_base64_audio"
        /\ service_call'.arg = service_call.arg) =>
            service_call'.result = service_call.result]_vars

\* C30: a message with a study keyword that holds no URL, has at most
\* min_content_len characters after each trigger word and is at most
\* min_message_len characters long, like "xyz12 please summarize abc", is
\* claimed by _handle_study_request, which returns success with the reply
\* that asks for content and the marker of the study skill.
C30_StudyAsksForContent ==
    (/\ service_call.fn = "_handle_study_request"
     /\ service_call.arg.keyword
     /\ ~service_call.arg.url
     /\ \A k \in 1..Len(service_call.arg.after) :
            service_call.arg.after[k] <= min_content_len
     /\ service_call.arg.len <= min_message_len) =>
        /\ service_call.result.claimed
        /\ service_call.result.success
        /\ service_call.result.reply = "ask_content"
        /\ service_call.result.model_used = "study-assistant-skill"

\* _handle_study_request was called with "xyz12 please summarize abc": 26
\* characters, three of them after the trigger word
C30_Witness ==
    /\ service_call.fn = "_handle_study_request"
    /\ service_call.arg = [keyword |-> TRUE, url |-> FALSE, after |-> << 3 >>, len |-> 26]
    /\ service_call.result.reply = "ask_content"

RECURSIVE Concatenated(_, _)
\* the chunks, joined in order from position pos on, are the characters
\* pos .. n - 1 of the payload, each once: the length n they end at, or -1
\* when a chunk does not start where the one before it ended
Concatenated(chunks, pos) ==
    IF chunks = << >> THEN pos
    ELSE IF Head(chunks).start # pos THEN -1
    ELSE Concatenated(Tail(chunks), pos + Head(chunks).size)

\* C31: the chunks a payload is split into, joined in the order of their
\* chunk_index, are the payload: each chunk starts where the one before it
\* ended, the first at the first character, the last ends at the last.
C31_ChunksRebuildPayload ==
    \A i \in 1..Len(tasks) :
        tasks[i].pc \in {"stream", "done"} =>
            /\ Concatenated(tasks[i].chunks, 0) = tasks[i].total_size
            /\ tasks[i].complete # << >> =>
                  /\ \A k \in 1..Len(tasks[i].emitted) :
                        /\ tasks[i].emitted[k].start = tasks[i].chunks[k].start
                        /\ tasks[i].emitted[k].chunk_size = tasks[i].chunks[k].size
                  /\ Len(tasks[i].emitted) = Len(tasks[i].chunks)

\* stream_audio_to_client completed a payload one character short of two
\* chunk sizes
C31_Witness ==
    \E i \in 1..Len(tasks) :
        /\ tasks[i].kind = "ws"
        /\ tasks[i].total_size = 2 * chunk_size - 1
        /\ Len(tasks[i].emitted) = 2
        /\ tasks[i].complete # << >>

\* ceil(n / cs)
CeilDiv(n, cs) == (n + cs - 1) \div cs

\* C33: a chunked stream has ceil(payload_length / chunk_size) chunks, every
\* emitted chunk is non-empty, and every chunk but the last has exactly
\* chunk_size characters.
C33_ChunkCountAndSizes ==
    \A i \in 1..Len(tasks) :
        tasks[i].pc \in {"stream", "done"} =>
            /\ tasks[i].total_chunks = CeilDiv(tasks[i].total_size, tasks[i].chunk_size)
            /\ \A k \in 1..Len(tasks[i].emitted) :
                  /\ tasks[i].emitted[k].chunk_size > 0
                  /\ k < tasks[i].total_chunks =>
                        tasks[i].emitted[k].chunk_size = tasks[i].chunk_size

\* C39: in RealtimeSTTService is_streaming is true only while the current
\* backend connection is open.
C39_StreamingImpliesConnected == is_streaming => is_connected

\* C34: once stop_streaming_transcription has closed the connection of a
\* stream, no PartialTranscript and no FinalTranscript the backend still
\* delivers on it reaches the transcription callback or the turn callback, so
\* no generation starts for it.
C34_NoCallbackAfterStop ==
    [][\A w \in 1..Len(ws_apps) :
        ws_apps[w].state = "closing" =>
            \A n \in TranscriptLens :
                ~on_partial(w, n) /\ ~on_final(w, n)]_vars

\* the events that end the generation of a turn for the client
TerminalEvents == {"llm_streaming_complete", "llm_error"}

C35_FragmentsMakeResponse ==
    (service_call.fn = "generate_streaming_response" /\ service_call.result.success) =>
        AccumulatedChars(service_call.result) = service_call.result.response.len

\* C36: when start_murf_websocket_sync returns a status other than
\* 'connected', its timeout included, the connection is not in murf_sessions,
\* and the connect thread that is still running does not add it later; a
\* 'connected' status is returned only with the connection in murf_sessions.
C36_NotAddedAfterFailure ==
    [][\A s \in Sockets :
        /\ murf_sync_timeout(s) => s \notin murf_sessions'
        /\ (murf_call[s] = "timed_out" /\ start_murf_websocket(s)) =>
              murf_sessions' = murf_sessions
        /\ (murf_call[s] = "waiting" /\ start_murf_websocket(s)) =>
              (last_event'.status = "connected" <=> s \in murf_sessions')]_vars

C38_OwnAudioReturned ==
    \A s \in Sockets :
        tts_calls[s].pc = "done" =>
            tts_calls[s].result[1].text = << s, tts_calls[s].round >>

=============================================================================
